---- MODULE Spec2Model ----
(***************************************************************************)
(* Model of the material / aggregate-geometry core of the path tracer:     *)
(*   include/custom/nihai/hittables.hpp  (HittableList)                    *)
(*   include/custom/nihai/material.hpp   (Material and its variants)       *)
(*                                                                         *)
(* Doubles are modelled as exact rationals <<num, den>> (den > 0, lowest   *)
(* terms).  sqrt is exact and inputs are drawn from vectors whose lengths, *)
(* sines and cosines are rational, so every value the code computes is     *)
(* represented exactly.                                                     *)
(***************************************************************************)
EXTENDS Integers, Sequences, FiniteSets, TLC

(* ------------------------------ bounds --------------------------------- *)
MaxObjects == 3
MaxDist == 2

(* ------------------------- rational arithmetic ------------------------- *)
Abs(a) == IF a < 0 THEN -a ELSE a

RECURSIVE Gcd(_, _)
Gcd(a, b) == IF b = 0 THEN a ELSE Gcd(b, a % b)

R(n, d) ==
  LET g == Gcd(Abs(n), Abs(d))
      s == IF d < 0 THEN -1 ELSE 1
  IN  <<(s * n) \div g, (s * d) \div g>>

Zero == <<0, 1>>
One == <<1, 1>>

RAdd(a, b) == R(a[1] * b[2] + b[1] * a[2], a[2] * b[2])
RSub(a, b) == R(a[1] * b[2] - b[1] * a[2], a[2] * b[2])
RMul(a, b) == R(a[1] * b[1], a[2] * b[2])
RDiv(a, b) == R(a[1] * b[2], a[2] * b[1])
RNeg(a) == <<-a[1], a[2]>>
RLt(a, b) == a[1] * b[2] < b[1] * a[2]
RLe(a, b) == a[1] * b[2] <= b[1] * a[2]
RMin(a, b) == IF RLt(b, a) THEN b ELSE a

RECURSIVE RPow(_, _)
RPow(a, k) == IF k = 0 THEN One ELSE RMul(a, RPow(a, k - 1))

IsSquare(n) == \E k \in 0..n : k * k = n
ISqrt(n) == CHOOSE k \in 0..n : k * k = n
HasRoot(a) == a[1] >= 0 /\ IsSquare(a[1]) /\ IsSquare(a[2])
RSqrt(a) == <<ISqrt(a[1]), ISqrt(a[2])>>

(* ------------------------------ vec3 / Ray ----------------------------- *)
Vec(x, y, z) == <<x, y, z>>
VAdd(a, b) == <<RAdd(a[1], b[1]), RAdd(a[2], b[2]), RAdd(a[3], b[3])>>
VScale(k, a) == <<RMul(k, a[1]), RMul(k, a[2]), RMul(k, a[3])>>
VSub(a, b) == VAdd(a, VScale(<<-1, 1>>, b))
Dot(a, b) == RAdd(RAdd(RMul(a[1], b[1]), RMul(a[2], b[2])), RMul(a[3], b[3]))
LengthSquared(a) == Dot(a, a)
Length(a) == RSqrt(LengthSquared(a))
\* to_unit(v) = v / length(v)
ToUnit(a) == VScale(RDiv(One, Length(a)), a)
\* reflect(v, n) = v - 2 * dot(v, n) * n
Reflect(v, n) == VSub(v, VScale(RMul(<<2, 1>>, Dot(v, n)), n))
\* refract(uv, n, eta): Snell's law,
\*   perpendicular part eta * (uv + cos * n), cos = dot(-uv, n)
\*   parallel part      -sqrt(1 - eta^2 * (1 - cos^2)) * n
RefractRadicand(uv, n, eta) ==
  LET c == Dot(VScale(<<-1, 1>>, uv), n)
  IN  RSub(One, RMul(RMul(eta, eta), RSub(One, RMul(c, c))))
Refract(uv, n, eta) ==
  LET c == Dot(VScale(<<-1, 1>>, uv), n)
      perp == VScale(eta, VAdd(uv, VScale(c, n)))
      par == VScale(RNeg(RSqrt(RefractRadicand(uv, n, eta))), n)
  IN  VAdd(perp, par)

Color(x) == <<x, x, x>>
Ray(o, d, t) == [orig |-> o, dir |-> d, tm |-> t]
\* a default-constructed Ray / an empty shared_ptr
NoRay == [orig |-> Color(Zero), dir |-> Color(Zero), tm |-> Zero]
Null == [kind |-> "nullptr"]
CosinePdf(w) == [kind |-> "CosinePdf", w |-> w]

\* Texture::value(u, v, p): a solid colour, or two colours split on u
TextureValue(tex, u, v, p) ==
  IF tex.kind = "solid" THEN tex.c
  ELSE IF RLt(u, <<1, 2>>) THEN tex.c ELSE tex.c2

(* ------------------------------ HittableList --------------------------- *)
\* A member primitive, seen from the current ray and query point: the
\* distance at which the ray meets it (NoHit when it does not) and the
\* density its pdf_value reports.
NoHit == 0
Densities == {Zero, <<1, 2>>, <<2, 1>>}
Members == [t : {NoHit} \cup (1..MaxDist), p : Densities]

\* objects: HittableList::objects; record: the caller's HitRecord handed to
\* HittableList::hit; mat: the material object under shading; srec: the
\* caller's ScatterRecord, reused from bounce to bounce; ret: the value the
\* last call returned; call: the last call made, with its arguments.
VARIABLES objects, record, mat, srec, ret, call

vars == <<objects, record, mat, srec, ret, call>>

Void == "void"

\* object->hit(r, dist_min, dist_max, temp)
MemberHit(obj, dist_min, dist_max) ==
  obj.t # NoHit /\ dist_min <= obj.t /\ obj.t <= dist_max

\* the loop of HittableList::hit; st = <<hit_, current_closest, record>>
RECURSIVE HitLoop(_, _, _, _, _)
HitLoop(objs, i, dist_min, dist_max, st) ==
  IF i > Len(objs) THEN st
  ELSE IF MemberHit(objs[i], dist_min, dist_max)
       THEN HitLoop(objs, i + 1, dist_min, dist_max,
                    <<TRUE, objs[i].t, [dist |-> objs[i].t]>>)
       ELSE HitLoop(objs, i + 1, dist_min, dist_max, st)

ListHit(objs, dist_min, dist_max, rec) ==
  HitLoop(objs, 1, dist_min, dist_max, <<FALSE, dist_max, rec>>)

\* the loop of HittableList::pdf_value
RECURSIVE PdfLoop(_, _, _, _)
PdfLoop(objs, i, weight, s) ==
  IF i > Len(objs) THEN s
  ELSE PdfLoop(objs, i + 1, weight, RAdd(s, RMul(weight, objs[i].p)))

\* variant: the loop starts at the second member
ListPdfValueSkipFirst(objs) ==
  IF Len(objs) = 0 THEN Zero
  ELSE PdfLoop(objs, 2, RDiv(One, <<Len(objs), 1>>), Zero)

ListPdfValue(objs) ==
  IF Len(objs) = 0 THEN Zero
  ELSE PdfLoop(objs, 1, RDiv(One, <<Len(objs), 1>>), Zero)

(* ------------------------------ materials ------------------------------ *)
\* Metal::Metal(alb, rough)
MetalCtor(alb, rough) ==
  [type |-> "Metal", albedo |-> alb,
   roughness |-> IF RLt(rough, One) THEN rough ELSE One]
DielectricCtor(ridx) == [type |-> "Dielectric", ref_idx |-> ridx]
DiffuseLightCtor(t) == [type |-> "DiffuseLight", emit |-> t]
IsotropicCtor(a) == [type |-> "Isotropic", albedo |-> a]
LambertianCtor(a) == [type |-> "Lambertian", albedo |-> a]

\* The scatter overloads return [ret, writes, draws]: the value returned, the
\* fields of the caller's ScatterRecord they assign (the others keep what the
\* caller had in them), and the number of random_double() calls made.

\* Material::scatter(ray_in, record, sre): the base class leaves sre alone
MaterialScatter == [ret |-> FALSE, writes |-> <<>>, draws |-> 0]

FresnelCT(costheta, ridx) ==
  LET etao == RAdd(One, RSqrt(ridx))
      etau == RSub(One, RSqrt(ridx))
      eta == RDiv(etao, etau)
      g == RSqrt(RSub(RAdd(RPow(eta, 2), RPow(costheta, 2)), One))
      g_c == RSub(g, costheta)
      gplusc == RAdd(g, costheta)
      gplus_cc == RSub(RMul(gplusc, costheta), One)
      g_cc == RAdd(RMul(g_c, costheta), One)
      oneplus_gcc == RAdd(One, RPow(RDiv(gplus_cc, g_cc), 2))
      half_plus_minus == RMul(<<1, 2>>, RPow(RDiv(g_c, gplusc), 2))
  IN  RMul(half_plus_minus, oneplus_gcc)

\* variant: fourth power in place of the fifth
FresnelSchlickPow4(costheta, ridx) ==
  LET r0 == RDiv(RSub(One, ridx), RAdd(One, ridx))
      r0sq == RMul(r0, r0)
  IN  RAdd(r0sq, RMul(RSub(One, r0sq), RPow(RSub(One, costheta), 4)))

FresnelSchlick(costheta, ridx) ==
  LET r0 == RDiv(RSub(One, ridx), RAdd(One, ridx))
      r0sq == RMul(r0, r0)
  IN  RAdd(r0sq, RMul(RSub(One, r0sq), RPow(RSub(One, costheta), 5)))

GetFresnel(costheta, ridx, choice) ==
  CASE choice = 0 -> FresnelSchlick(costheta, ridx)
    [] choice = 1 -> FresnelCT(costheta, ridx)
    [] OTHER -> FresnelSchlick(costheta, ridx)

\* variant: the two refraction ratios swapped
EtaOverSwapped(m, rec) ==
  IF rec.front_face THEN m.ref_idx ELSE RDiv(One, m.ref_idx)

\* the locals of Dielectric::scatter
EtaOver(m, rec) == IF rec.front_face THEN RDiv(One, m.ref_idx) ELSE m.ref_idx
CosTheta(r_in, rec) ==
  RMin(Dot(VScale(<<-1, 1>>, ToUnit(r_in.dir)), rec.normal), One)
SinTheta(r_in, rec) ==
  RSqrt(RSub(One, RMul(CosTheta(r_in, rec), CosTheta(r_in, rec))))

\* Dielectric::scatter; x is the value random_double() returns if called
DielectricScatter(m, r_in, rec, x) ==
  LET s0 == [is_specular |-> TRUE, pdf_ptr |-> Null,
             attenuation |-> Color(One)]
      unit_in_dir == ToUnit(r_in.dir)
      eta_over == EtaOver(m, rec)
      costheta == CosTheta(r_in, rec)
      sintheta == SinTheta(r_in, rec)
      reflected == Ray(rec.point, Reflect(unit_in_dir, rec.normal), r_in.tm)
      refracted == Ray(rec.point, Refract(unit_in_dir, rec.normal, eta_over),
                       r_in.tm)
  IN  IF RLt(One, RMul(eta_over, sintheta))
      THEN [ret |-> TRUE, writes |-> [r_out |-> reflected] @@ s0, draws |-> 0]
      ELSE IF RLt(x, GetFresnel(costheta, eta_over, 0))
           THEN [ret |-> TRUE, writes |-> [r_out |-> reflected] @@ s0,
                 draws |-> 1]
           ELSE [ret |-> TRUE, writes |-> [r_out |-> refracted] @@ s0,
                 draws |-> 1]

\* Lambertian::scatter(ray_in, record, srec)
LambertianScatter(m, r_in, rec) ==
  [ret |-> TRUE,
   writes |-> [is_specular |-> FALSE,
               attenuation |-> TextureValue(m.albedo, rec.u, rec.v, rec.point),
               pdf_ptr |-> CosinePdf(rec.normal)],
   draws |-> 0]

\* variant: the unit-sphere sample is not scaled by the roughness
MetalScatterUnscaled(m, r_in, rec, rnd) ==
  LET unit_in_dir == ToUnit(r_in.dir)
      out_dir == Reflect(unit_in_dir, rec.normal)
  IN  [ret |-> TRUE,
       writes |-> [r_out |-> Ray(rec.point, VAdd(out_dir, rnd), r_in.tm),
                   attenuation |-> m.albedo,
                   is_specular |-> TRUE,
                   pdf_ptr |-> Null],
       draws |-> 0]

\* variant: pdf_ptr is not reset
MetalScatterKeepsPdf(m, r_in, rec, rnd) ==
  LET unit_in_dir == ToUnit(r_in.dir)
      out_dir == Reflect(unit_in_dir, rec.normal)
  IN  [ret |-> TRUE,
       writes |-> [r_out |-> Ray(rec.point,
                                 VAdd(out_dir, VScale(m.roughness, rnd)),
                                 r_in.tm),
                   attenuation |-> m.albedo,
                   is_specular |-> TRUE],
       draws |-> 0]

\* Metal::scatter; rnd is the value of random_in_unit_sphere()
MetalScatter(m, r_in, rec, rnd) ==
  LET unit_in_dir == ToUnit(r_in.dir)
      out_dir == Reflect(unit_in_dir, rec.normal)
  IN  [ret |-> TRUE,
       writes |-> [r_out |-> Ray(rec.point,
                                 VAdd(out_dir, VScale(m.roughness, rnd)),
                                 r_in.tm),
                   attenuation |-> m.albedo,
                   is_specular |-> TRUE,
                   pdf_ptr |-> Null],
       draws |-> 0]

\* virtual dispatch of scatter(ray_in, record, ScatterRecord&)
Scatter(m, r_in, rec, x, rnd) ==
  CASE m.type = "Dielectric" -> DielectricScatter(m, r_in, rec, x)
    [] m.type = "Lambertian" -> LambertianScatter(m, r_in, rec)
    [] m.type = "Metal" -> MetalScatter(m, r_in, rec, rnd)
    [] OTHER -> MaterialScatter

\* CosinePdf: value(d) in units of 1/PI, and the directions generate() can
\* return (the hemisphere about w)
CosinePdfValue(w, d) ==
  LET c == Dot(ToUnit(d), w) IN IF RLt(c, Zero) THEN Zero ELSE c
GenDirs == {Vec(Zero, Zero, One), Vec(<<3, 5>>, Zero, <<4, 5>>),
            Vec(Zero, One, Zero)}
CosinePdfGenerate(w) == {d \in GenDirs : RLe(Zero, Dot(d, w))}

\* virtual dispatch of scatter(ray_in, record, attenuation, r_out); writes
\* are the out-parameters assigned
Scatter4(m, r_in, rec, rnd, gen) ==
  CASE m.type = "Isotropic" ->
         [ret |-> TRUE,
          writes |-> [r_out |-> Ray(rec.point, rnd, r_in.tm),
                      attenuation |->
                        TextureValue(m.albedo, rec.u, rec.v, rec.point)]]
    [] m.type = "Lambertian" ->
         [ret |-> TRUE,
          writes |-> [attenuation |->
                        TextureValue(m.albedo, rec.u, rec.v, rec.point),
                      r_out |-> Ray(rec.point, gen, r_in.tm)]]
    [] OTHER -> [ret |-> FALSE, writes |-> <<>>]

\* virtual dispatch of scatter(ray_in, record, attenuation, r_out, pdf)
Scatter5(m, r_in, rec, gen) ==
  CASE m.type = "Lambertian" ->
         [ret |-> TRUE,
          writes |-> [attenuation |->
                        TextureValue(m.albedo, rec.u, rec.v, rec.point),
                      r_out |-> Ray(rec.point, gen, r_in.tm),
                      pdf |-> CosinePdfValue(rec.normal, rec.normal)]]
    [] OTHER -> [ret |-> FALSE, writes |-> <<>>]

\* variant: the light emits from both faces
Emitted5TwoSided(m, r_in, rec, u, v, p) ==
  CASE m.type = "DiffuseLight" -> TextureValue(m.emit, u, v, p)
    [] OTHER -> Color(Zero)

\* virtual dispatch of emitted(r_in, record, u, v, p)
Emitted5(m, r_in, rec, u, v, p) ==
  CASE m.type = "DiffuseLight" ->
         IF rec.front_face THEN TextureValue(m.emit, u, v, p) ELSE Color(Zero)
    [] OTHER -> Color(Zero)

\* virtual dispatch of emitted(u, v, p)
Emitted3(m, u, v, p) ==
  CASE m.type = "DiffuseLight" -> TextureValue(m.emit, u, v, p)
    [] OTHER -> Color(Zero)

(* --------------------------- inputs of the calls ----------------------- *)
Origin == Vec(Zero, Zero, Zero)
HitPoint == Vec(<<1, 1>>, <<2, 1>>, <<3, 1>>)
Grey == Color(<<1, 2>>)
Red == Vec(One, Zero, Zero)
Textures == {[kind |-> "solid", c |-> Grey, c2 |-> Grey],
             [kind |-> "split", c |-> Red, c2 |-> Grey]}
Dirs == {Vec(<<3, 5>>, Zero, <<-4, 5>>), Vec(<<4, 5>>, Zero, <<-3, 5>>),
         Vec(Zero, Zero, <<-1, 1>>), Vec(<<4, 1>>, Zero, <<-3, 1>>),
         Vec(One, Zero, Zero)}
Normals == {Vec(Zero, Zero, One), Vec(Zero, <<3, 5>>, <<4, 5>>)}
Us == {Zero, One}
Rays == {Ray(Origin, d, <<1, 2>>) : d \in Dirs}
HitRecords ==
  [point : {HitPoint}, normal : Normals, front_face : BOOLEAN,
   u : Us, v : {Zero}]
\* the hit record's normal is oriented against the incoming ray
Facing(r_in, rec) == RLe(Dot(r_in.dir, rec.normal), Zero)
Roughs == {<<-1, 2>>, Zero, <<1, 2>>, <<2, 1>>}
RefIdxs == {<<4, 3>>, <<5, 3>>}
Draws == {Zero, <<1, 49>>, <<1, 25>>, <<1, 2>>}
SpherePoints == {Origin, Vec(Zero, Zero, <<-4, 5>>), Vec(<<1, 2>>, Zero, Zero)}

\* the square roots taken on the path the call follows are rational
Exact(m, r_in, rec, x) ==
  /\ HasRoot(LengthSquared(r_in.dir))
  /\ m.type = "Dielectric" =>
       /\ HasRoot(RSub(One, RMul(CosTheta(r_in, rec), CosTheta(r_in, rec))))
       /\ \/ RLt(One, RMul(EtaOver(m, rec), SinTheta(r_in, rec)))
          \/ RLt(x, GetFresnel(CosTheta(r_in, rec), EtaOver(m, rec), 0))
          \/ HasRoot(RefractRadicand(ToUnit(r_in.dir), rec.normal,
                                     EtaOver(m, rec)))

NoMaterial == [type |-> "none"]
\* ScatterRecord srec; -- is_specular is not initialised
FreshSrec(b) ==
  [r_out |-> NoRay, is_specular |-> b, attenuation |-> Color(Zero),
   pdf_ptr |-> Null]

\* every material object the constructors can build from these inputs
Materials ==
  {MetalCtor(Grey, rough) : rough \in Roughs}
    \cup {DielectricCtor(ridx) : ridx \in RefIdxs}
    \cup {DiffuseLightCtor(t) : t \in Textures}
    \cup {IsotropicCtor(t) : t \in Textures}
    \cup {LambertianCtor(t) : t \in Textures}

\* the (ray, hit record) pairs a call can be made with
Hits == {h : h \in {p \in Rays \X HitRecords : Facing(p[1], p[2])}}

\* the calls of scatter(r_in, rec, srec) on m and what each one does; only
\* Dielectric draws x and only Metal draws rnd
ScatterCalls(m) ==
  {[r_in |-> c[1][1], rec |-> c[1][2], x |-> c[2], rnd |-> c[3],
    res |-> Scatter(m, c[1][1], c[1][2], c[2], c[3])] :
     c \in {d \in Hits \X Draws \X SpherePoints :
              /\ m.type # "Dielectric" => d[2] = Zero
              /\ m.type # "Metal" => d[3] = Origin
              /\ Exact(m, d[1][1], d[1][2], d[2])}}
ScatterOutcomes == [m \in Materials |-> ScatterCalls(m)] @@ <<>>

\* the calls of scatter(r_in, rec, attenuation, r_out) on m; only Isotropic
\* draws rnd and only Lambertian a direction gen from its CosinePdf
Scatter4Calls(m) ==
  {[r_in |-> c[1][1], rec |-> c[1][2], rnd |-> c[2],
    res |-> Scatter4(m, c[1][1], c[1][2], c[2], c[3])] :
     c \in {d \in Hits \X SpherePoints \X (GenDirs \cup {Origin}) :
              /\ m.type # "Isotropic" => d[2] = Origin
              /\ d[3] \in (IF m.type = "Lambertian"
                           THEN CosinePdfGenerate(d[1][2].normal)
                           ELSE {Origin})}}
Scatter4Outcomes == [m \in Materials |-> Scatter4Calls(m)] @@ <<>>

\* the calls of scatter(r_in, rec, attenuation, r_out, pdf) on m
Scatter5Calls(m) ==
  {[r_in |-> c[1][1], rec |-> c[1][2],
    res |-> Scatter5(m, c[1][1], c[1][2], c[2])] :
     c \in {d \in Hits \X (GenDirs \cup {Origin}) :
              d[2] \in (IF m.type = "Lambertian"
                        THEN CosinePdfGenerate(d[1][2].normal)
                        ELSE {Origin})}}
Scatter5Outcomes == [m \in Materials |-> Scatter5Calls(m)] @@ <<>>

\* the calls of emitted(r_in, rec, u, v, p) on m
Emitted5Calls(m) ==
  {[r_in |-> c[1][1], rec |-> c[1][2], u |-> c[2],
    res |-> Emitted5(m, c[1][1], c[1][2], c[2], Zero, HitPoint)] :
     c \in Hits \X Us}
Emitted5Outcomes == [m \in Materials |-> Emitted5Calls(m)] @@ <<>>

(* ------------------------- HittableList behaviour ---------------------- *)
\* HitRecord record; -- the caller's record is not initialised
ListInit ==
  /\ objects = <<>>
  /\ record \in {[dist |-> d] : d \in 0..MaxDist}
  /\ mat = NoMaterial
  /\ srec = FreshSrec(FALSE)
  /\ ret = Void
  /\ call = [op |-> "new"]

Add ==
  /\ Len(objects) < MaxObjects
  /\ \E m \in Members : objects' = Append(objects, m)
  /\ call' = [op |-> "add"]
  /\ ret' = Void
  /\ UNCHANGED <<record, mat, srec>>

Clear ==
  /\ objects' = <<>>
  /\ call' = [op |-> "clear"]
  /\ ret' = Void
  /\ UNCHANGED <<record, mat, srec>>

Hit ==
  \E dist_min \in 1..MaxDist, dist_max \in 1..MaxDist :
    /\ dist_min <= dist_max
    /\ LET st == ListHit(objects, dist_min, dist_max, record)
       IN  /\ ret' = st[1]
           /\ record' = st[3]
    /\ call' = [op |-> "hit", dist_min |-> dist_min, dist_max |-> dist_max]
    /\ UNCHANGED <<objects, mat, srec>>

PdfValue ==
  /\ ret' = ListPdfValue(objects)
  /\ call' = [op |-> "pdf_value"]
  /\ UNCHANGED <<objects, record, mat, srec>>

ListNext == Add \/ Clear \/ Hit \/ PdfValue

Spec == ListInit /\ [][ListNext]_vars

(* --------------------------- material behaviour ------------------------ *)
MatInit ==
  /\ objects = <<>>
  /\ record = [dist |-> 0]
  /\ mat = NoMaterial
  /\ srec \in {FreshSrec(b) : b \in BOOLEAN}
  /\ ret = Void
  /\ call = [op |-> "new"]

NewMetal ==
  /\ \E rough \in Roughs :
       /\ mat' = MetalCtor(Grey, rough)
       /\ call' = [op |-> "Metal", rough |-> rough]
  /\ ret' = Void
  /\ UNCHANGED <<objects, record, srec>>

NewDielectric ==
  /\ \E ridx \in RefIdxs :
       /\ mat' = DielectricCtor(ridx)
       /\ call' = [op |-> "Dielectric", ridx |-> ridx]
  /\ ret' = Void
  /\ UNCHANGED <<objects, record, srec>>

NewDiffuseLight ==
  /\ \E t \in Textures :
       /\ mat' = DiffuseLightCtor(t)
       /\ call' = [op |-> "DiffuseLight"]
  /\ ret' = Void
  /\ UNCHANGED <<objects, record, srec>>

NewIsotropic ==
  /\ \E t \in Textures :
       /\ mat' = IsotropicCtor(t)
       /\ call' = [op |-> "Isotropic"]
  /\ ret' = Void
  /\ UNCHANGED <<objects, record, srec>>

NewLambertian ==
  /\ \E t \in Textures :
       /\ mat' = LambertianCtor(t)
       /\ call' = [op |-> "Lambertian"]
  /\ ret' = Void
  /\ UNCHANGED <<objects, record, srec>>

\* mat->scatter(r_in, rec, srec)
ScatterCall ==
  /\ mat \in Materials
  /\ \E c \in ScatterOutcomes[mat] :
       /\ srec' = c.res.writes @@ srec
       /\ ret' = c.res.ret
       /\ call' = [op |-> "scatter", r_in |-> c.r_in, rec |-> c.rec,
                   x |-> c.x, rnd |-> c.rnd, draws |-> c.res.draws]
  /\ UNCHANGED <<objects, record, mat>>

\* mat->scatter(r_in, rec, attenuation, r_out)
Scatter4Call ==
  /\ mat \in Materials
  /\ \E c \in Scatter4Outcomes[mat] :
       /\ ret' = c.res.ret
       /\ call' = [op |-> "scatter4", r_in |-> c.r_in, rec |-> c.rec,
                   rnd |-> c.rnd, out |-> c.res.writes]
  /\ UNCHANGED <<objects, record, mat, srec>>

\* mat->scatter(r_in, rec, attenuation, r_out, pdf)
Scatter5Call ==
  /\ mat \in Materials
  /\ \E c \in Scatter5Outcomes[mat] :
       /\ ret' = c.res.ret
       /\ call' = [op |-> "scatter5", r_in |-> c.r_in, rec |-> c.rec,
                   out |-> c.res.writes]
  /\ UNCHANGED <<objects, record, mat, srec>>

\* mat->emitted(r_in, rec, u, v, p)
Emitted5Call ==
  /\ mat \in Materials
  /\ \E c \in Emitted5Outcomes[mat] :
       /\ ret' = c.res
       /\ call' = [op |-> "emitted5", r_in |-> c.r_in, rec |-> c.rec,
                   u |-> c.u, v |-> Zero, p |-> HitPoint]
  /\ UNCHANGED <<objects, record, mat, srec>>

\* mat->emitted(u, v, p)
Emitted3Call ==
  /\ mat \in Materials
  /\ \E u \in Us :
       /\ ret' = Emitted3(mat, u, Zero, HitPoint)
       /\ call' = [op |-> "emitted3", u |-> u, v |-> Zero, p |-> HitPoint]
  /\ UNCHANGED <<objects, record, mat, srec>>

\* shading through the ScatterRecord interface
MatNext ==
  \/ NewMetal \/ NewDielectric \/ NewDiffuseLight \/ NewIsotropic
  \/ NewLambertian
  \/ ScatterCall

MatSpec == MatInit /\ [][MatNext]_vars

\* a scene of emitters and volumes, queried through every overload
LightNext ==
  \/ NewDiffuseLight \/ NewIsotropic \/ NewLambertian
  \/ ScatterCall \/ Scatter4Call \/ Scatter5Call
  \/ Emitted5Call \/ Emitted3Call

LightSpec == MatInit /\ [][LightNext]_vars

(* ------------------------------ properties ----------------------------- *)
\* the sum of the members' densities
RECURSIVE SumDensities(_)
SumDensities(objs) ==
  IF objs = <<>> THEN Zero ELSE RAdd(objs[1].p, SumDensities(Tail(objs)))

\* C1: HittableList.hit returns true exactly when some member is hit in
\* [dist_min, dist_max], and then record.dist is the least distance among the
\* members hit in that range.
C1_HitReturnsClosest ==
  call.op = "hit" =>
    LET inRange == {i \in 1..Len(objects) :
                      MemberHit(objects[i], call.dist_min, call.dist_max)}
    IN  /\ ret = (inRange # {})
        /\ ret = TRUE =>
             /\ \E i \in inRange : record.dist = objects[i].t
             /\ \A i \in inRange : record.dist <= objects[i].t

\* C2: HittableList.pdf_value on n >= 1 members returns (p1 + ... + pn) / n,
\* which is (p1 + p2) / 2 for two members, and is non-negative.
C2_PdfValueIsMean ==
  (call.op = "pdf_value" /\ Len(objects) >= 1) =>
    /\ ret = RDiv(SumDensities(objects), <<Len(objects), 1>>)
    /\ Len(objects) = 2 =>
         ret = RDiv(RAdd(objects[1].p, objects[2].p), <<2, 1>>)
    /\ RLe(Zero, ret)

C2_Witness ==
  /\ call.op = "pdf_value"
  /\ Len(objects) = 2
  /\ objects[1].p = <<1, 2>>
  /\ objects[2].p = <<2, 1>>
  /\ ret = <<5, 4>>

\* C3: Dielectric.scatter under total internal reflection (eta_over *
\* sin_theta > 1) leaves the reflection of the unit incoming direction about
\* the normal in r_out, whatever random_double() would have returned, and
\* makes no draw.
C3_TotalInternalReflection ==
  (/\ call.op = "scatter"
   /\ mat.type = "Dielectric"
   /\ RLt(One, RMul(IF call.rec.front_face
                    THEN RDiv(One, mat.ref_idx) ELSE mat.ref_idx,
                    SinTheta(call.r_in, call.rec)))) =>
    /\ srec.r_out.dir = Reflect(ToUnit(call.r_in.dir), call.rec.normal)
    /\ call.draws = 0

C3_Witness ==
  /\ call.op = "scatter"
  /\ mat.type = "Dielectric"
  /\ ~call.rec.front_face
  /\ RLt(One, RMul(mat.ref_idx, SinTheta(call.r_in, call.rec)))
  /\ call.x = <<1, 2>>
  /\ srec.r_out.dir = Reflect(ToUnit(call.r_in.dir), call.rec.normal)

\* C4: DiffuseLight.emitted(r_in, hit, u, v, p) is emit.value(u, v, p) on a
\* front face and the zero colour otherwise, and every scatter overload
\* called on a DiffuseLight returns false.
C4_DiffuseLightOneSided ==
  mat.type = "DiffuseLight" =>
    /\ call.op = "emitted5" =>
         ret = IF call.rec.front_face
               THEN TextureValue(mat.emit, call.u, call.v, call.p)
               ELSE Color(Zero)
    /\ call.op \in {"scatter", "scatter4", "scatter5"} => ret = FALSE

C4_Witness ==
  /\ mat.type = "DiffuseLight"
  /\ call.op = "emitted5"
  /\ ~call.rec.front_face
  /\ TextureValue(mat.emit, call.u, call.v, call.p) # Color(Zero)
  /\ ret = Color(Zero)

\* C5: Metal.scatter reports the bounce absorbed (returns false) whenever the
\* perturbed outgoing direction has dot(direction, normal) <= 0.
C5_MetalAbsorbsBelowSurface ==
  (/\ call.op = "scatter"
   /\ mat.type = "Metal"
   /\ RLe(Dot(srec.r_out.dir, call.rec.normal), Zero)) =>
    ret = FALSE

\* C6: the roughness a Metal stores lies in [0, 1], and is the constructor's
\* argument when that is already in [0, 1].
C6_RoughnessClamped ==
  call.op = "Metal" =>
    /\ RLe(Zero, mat.roughness)
    /\ RLe(mat.roughness, One)
    /\ (RLe(Zero, call.rough) /\ RLe(call.rough, One)) =>
         mat.roughness = call.rough

\* C7 as stated: with roughness 0 the direction Metal.scatter returns is
\* reflect(d_in, normal) for every incoming direction, unit length or not.
C7_MirrorOfRawDirection ==
  (call.op = "scatter" /\ mat.type = "Metal" /\ mat.roughness = Zero) =>
    srec.r_out.dir = Reflect(call.r_in.dir, call.rec.normal)

\* C7 amended: with roughness 0 the direction Metal.scatter returns is
\* reflect(unit(d_in), normal), whatever the unit-sphere sample; it is
\* reflect(d_in, normal) when d_in has unit length.
C7_MirrorOfUnitDirection ==
  (call.op = "scatter" /\ mat.type = "Metal" /\ mat.roughness = Zero) =>
    /\ srec.r_out.dir = Reflect(ToUnit(call.r_in.dir), call.rec.normal)
    /\ LengthSquared(call.r_in.dir) = One =>
         srec.r_out.dir = Reflect(call.r_in.dir, call.rec.normal)

C7_Witness ==
  /\ call.op = "scatter"
  /\ mat.type = "Metal"
  /\ mat.roughness = Zero
  /\ LengthSquared(call.r_in.dir) # One
  /\ call.rnd # Origin
  /\ srec.r_out.dir = Reflect(ToUnit(call.r_in.dir), call.rec.normal)

\* C8: scatter in its ScatterRecord form on an Isotropic material returns
\* true with attenuation albedo.value(u, v, point).
C8_IsotropicAlwaysScatters ==
  (call.op = "scatter" /\ mat.type = "Isotropic") =>
    /\ ret = TRUE
    /\ srec.attenuation =
         TextureValue(mat.albedo, call.rec.u, call.rec.v, call.rec.point)

\* C9: after a ScatterRecord-form scatter that returns true, is_specular
\* holds exactly when pdf_ptr is null; Lambertian leaves is_specular false and
\* a CosinePdf about the hit normal; Metal and Dielectric leave is_specular
\* true, no Pdf and r_out set from the hit point, also on a reused record.
C9_ScatterRecordWellFormed ==
  (call.op = "scatter" /\ ret = TRUE) =>
    /\ srec.is_specular <=> (srec.pdf_ptr = Null)
    /\ mat.type = "Lambertian" =>
         /\ ~srec.is_specular
         /\ srec.pdf_ptr = CosinePdf(call.rec.normal)
    /\ mat.type \in {"Metal", "Dielectric"} =>
         /\ srec.is_specular
         /\ srec.pdf_ptr = Null
         /\ srec.r_out.orig = call.rec.point
         /\ srec.r_out.tm = call.r_in.tm
         /\ srec.r_out # NoRay

\* a Lambertian bounce on a record an earlier specular bounce has written
C9_Witness ==
  /\ call.op = "scatter"
  /\ ret = TRUE
  /\ mat.type = "Lambertian"
  /\ srec.r_out # NoRay
  /\ ~srec.is_specular
  /\ srec.pdf_ptr = CosinePdf(call.rec.normal)

\* C10: Dielectric.scatter always returns true with attenuation (1,1,1) and a
\* ray from the hit point; outside total internal reflection it makes one
\* draw x and the direction is the reflection when x is below the Schlick
\* term r0 + (1 - r0)(1 - cos_theta)^5, r0 = ((1 - eta)/(1 + eta))^2, and the
\* refraction with ratio eta_over otherwise.
C10_FresnelChoice ==
  (call.op = "scatter" /\ mat.type = "Dielectric") =>
    LET eta == IF call.rec.front_face
               THEN RDiv(One, mat.ref_idx) ELSE mat.ref_idx
        c == CosTheta(call.r_in, call.rec)
        r0 == RPow(RDiv(RSub(One, eta), RAdd(One, eta)), 2)
        schlick == RAdd(r0, RMul(RSub(One, r0), RPow(RSub(One, c), 5)))
        unit == ToUnit(call.r_in.dir)
    IN  /\ ret = TRUE
        /\ srec.attenuation = Color(One)
        /\ srec.r_out.orig = call.rec.point
        /\ RLe(RMul(eta, SinTheta(call.r_in, call.rec)), One) =>
             /\ call.draws = 1
             /\ srec.r_out.dir =
                  IF RLt(call.x, schlick)
                  THEN Reflect(unit, call.rec.normal)
                  ELSE Refract(unit, call.rec.normal, eta)

C10_Witness ==
  /\ call.op = "scatter"
  /\ mat.type = "Dielectric"
  /\ call.draws = 1
  /\ call.x = <<1, 25>>
  /\ srec.r_out.dir # Reflect(ToUnit(call.r_in.dir), call.rec.normal)
  /\ srec.r_out.dir =
       Refract(ToUnit(call.r_in.dir), call.rec.normal, EtaOver(mat, call.rec))

====
